---- MODULE Spec2Model ----
(***************************************************************************)
(* A model of the in-memory key/value store of src/server.go: the          *)
(* Datastore (a map guarded by one mutex), its five operations Set, Get,   *)
(* QPush, QPop and BQPop, and the command front end HandleCommand.         *)
(*                                                                         *)
(* Time is counted in ticks of 100 ms (the poll interval of BQPop), so one *)
(* second is Second = 10 ticks.  Statements take no time; only the sleep   *)
(* of BQPop and the idle time between calls let the clock advance.         *)
(*                                                                         *)
(* These specifications drive the same operations:                         *)
(*   Spec     one caller issuing Set, Get, QPush and QPop on two keys,     *)
(*            with 0.9 or 1 second passing between calls;                  *)
(*   SpecBQ   two callers on one key, one of them also issuing BQPop,      *)
(*            with the clock advancing by poll intervals;                  *)
(*   SpecBQFair   the callers of SpecBQ under fair scheduling;             *)
(*   SpecBQShort  SpecBQ with BQPop timeouts of zero and below;            *)
(*   SpecCmd  one caller sending raw command strings to HandleCommand.     *)
(***************************************************************************)
EXTENDS Integers, Sequences, FiniteSets, Bags, TLC

VARIABLES
    store,      \* ds.data: the map from key to *Data (absent key = not in DOMAIN)
    mu,         \* ds.mu: the caller holding the mutex, or NoCaller
    now,        \* time.Now(), in ticks
    pc,         \* per caller: where its current call stands
    bq,         \* per caller: the locals of its running BQPop (key, expiry, wake-up time)
    last,       \* the call that returned in the last step (arguments, result), or NoCall
    resp,       \* what HandleCommand returned in the last step (payload, status), or NoResp
    watch,      \* observer, per running BQPop: when it started, what happened to its key,
                \*   and how many of its attempts failed
    written,    \* observer, per key: the last successful Set (time, value, ttl)
    lifo,       \* observer, per key created by QPush: values appended, QPop results since
    ledger      \* observer, per key pushed to: the values pushed and not yet returned by a pop

vars == <<store, mu, now, pc, bq, last, resp, watch, written, lifo, ledger>>

----------------------------------------------------------------------------
(* Bounds of the model *)

MaxTime == 20       \* the clock of the one-caller specification stops here
MaxPollTime == 12   \* the clock of the two-caller specification stops here
MaxCmdTime == 1     \* the clock of the command specification stops here
MaxQueue == 2       \* QPush is not issued beyond this queue length
MaxShortTime == 3   \* the clock of the specification with timeouts up to zero stops here

(* Program constants *)

StatusOK == 200
StatusBadRequest == 400
StatusNotFound == 404
StatusConflict == 409
Second == 10        \* time.Second, in ticks
PollInterval == 1   \* 100 * time.Millisecond, in ticks
ZeroTime == -1      \* the zero time.Time ("no expiry"); earlier than every clock value

NoCaller == "none"
AllCallers == {"c1", "c2"}

----------------------------------------------------------------------------
(* The map ds.data *)

EmptyStore == [k \in {} |-> 0]

Put(s, key, d) == [k \in (DOMAIN s) \cup {key} |-> IF k = key THEN d ELSE s[k]]

Last(q) == q[Len(q)]

Front(q) == SubSeq(q, 1, Len(q) - 1)

(* What an operation hands back: the store after it, its payload and its status *)
Result(s, out, status) == [store |-> s, out |-> out, status |-> status]

----------------------------------------------------------------------------
(* Datastore.Set, lines 37-52 (the body under the lock) *)

SetOp_IgnoreNX(s, t, key, value, expirySeconds, conditional) ==
    IF key \notin DOMAIN s /\ conditional = "XX"
    THEN Result(s, "", StatusNotFound)
    ELSE LET expiry == IF expirySeconds > 0 THEN t + expirySeconds * Second ELSE ZeroTime
         IN  Result(Put(s, key, [value |-> value, expiry |-> expiry,
                                 isQueued |-> FALSE, queue |-> <<>>]),
                    "Enter data sucessfull", StatusOK)

SetOp_NoExpiry(s, t, key, value, expirySeconds, conditional) ==
    IF key \in DOMAIN s /\ conditional = "NX"
    THEN Result(s, "", StatusConflict)
    ELSE IF key \notin DOMAIN s /\ conditional = "XX"
    THEN Result(s, "", StatusNotFound)
    ELSE Result(Put(s, key, [value |-> value, expiry |-> ZeroTime,
                             isQueued |-> FALSE, queue |-> <<>>]),
                "Enter data sucessfull", StatusOK)

SetOp_GuardsQueue(s, t, key, value, expirySeconds, conditional) ==
    IF key \in DOMAIN s /\ (conditional = "NX" \/ s[key].isQueued)
    THEN Result(s, "", StatusConflict)
    ELSE IF key \notin DOMAIN s /\ conditional = "XX"
    THEN Result(s, "", StatusNotFound)
    ELSE LET expiry == IF expirySeconds > 0 THEN t + expirySeconds * Second ELSE ZeroTime
         IN  Result(Put(s, key, [value |-> value, expiry |-> expiry,
                                 isQueued |-> FALSE, queue |-> <<>>]),
                    "Enter data sucessfull", StatusOK)

SetOp_ExpiredIsAbsent(s, t, key, value, expirySeconds, conditional) ==
    LET exists == /\ key \in DOMAIN s
                  /\ (s[key].expiry = ZeroTime \/ t < s[key].expiry)
    IN  IF exists /\ conditional = "NX"
        THEN Result(s, "", StatusConflict)
        ELSE IF ~exists /\ conditional = "XX"
        THEN Result(s, "", StatusNotFound)
        ELSE LET expiry == IF expirySeconds > 0 THEN t + expirySeconds * Second
                           ELSE ZeroTime
             IN  Result(Put(s, key, [value |-> value, expiry |-> expiry,
                                     isQueued |-> FALSE, queue |-> <<>>]),
                        "Enter data sucessfull", StatusOK)

SetOp(s, t, key, value, expirySeconds, conditional) ==
    IF key \in DOMAIN s /\ conditional = "NX"
    THEN Result(s, "", StatusConflict)
    ELSE IF key \notin DOMAIN s /\ conditional = "XX"
    THEN Result(s, "", StatusNotFound)
    ELSE LET expiry == IF expirySeconds > 0 THEN t + expirySeconds * Second ELSE ZeroTime
         IN  Result(Put(s, key, [value |-> value, expiry |-> expiry,
                                 isQueued |-> FALSE, queue |-> <<>>]),
                    "Enter data sucessfull", StatusOK)

(* Datastore.Get, lines 59-65 *)

GetOp_ExpiresNoTtl(s, t, key) ==
    IF key \in DOMAIN s /\ t < s[key].expiry
    THEN Result(s, s[key].value, StatusOK)
    ELSE Result(s, "Key not exist", StatusNotFound)

GetOp_Evicts(s, t, key) ==
    IF key \in DOMAIN s /\ (s[key].expiry = ZeroTime \/ t < s[key].expiry)
    THEN Result(s, s[key].value, StatusOK)
    ELSE Result([k \in DOMAIN s \ {key} |-> s[k]], "Key not exist", StatusNotFound)

GetOp(s, t, key) ==
    IF key \in DOMAIN s /\ (s[key].expiry = ZeroTime \/ t < s[key].expiry)
    THEN Result(s, s[key].value, StatusOK)
    ELSE Result(s, "Key not exist", StatusNotFound)

(* Datastore.QPush, lines 72-83 *)

QPushOp_NoKindCheck(s, key, values) ==
    LET d == IF key \in DOMAIN s THEN s[key]
             ELSE [value |-> "", expiry |-> ZeroTime, isQueued |-> TRUE, queue |-> <<>>]
    IN  Result(Put(s, key, [d EXCEPT !.queue = d.queue \o values]),
               "Value is pushed successfully", StatusOK)

QPushOp_Overwrite(s, key, values) ==
    LET d == IF key \in DOMAIN s /\ s[key].isQueued THEN s[key]
             ELSE [value |-> "", expiry |-> ZeroTime, isQueued |-> TRUE, queue |-> <<>>]
    IN  Result(Put(s, key, [d EXCEPT !.queue = d.queue \o values]),
               "Value is pushed successfully", StatusOK)

QPushOp(s, key, values) ==
    LET d == IF key \in DOMAIN s THEN s[key]
             ELSE [value |-> "", expiry |-> ZeroTime, isQueued |-> TRUE, queue |-> <<>>]
    IN  IF ~d.isQueued
        THEN Result(s, "Key already exists", StatusConflict)
        ELSE Result(Put(s, key, [d EXCEPT !.queue = d.queue \o values]),
                    "Value is pushed successfully", StatusOK)

(* Datastore.QPop, lines 90-98 *)

QPopOp_Fifo(s, key) ==
    IF key \notin DOMAIN s \/ ~s[key].isQueued \/ Len(s[key].queue) = 0
    THEN Result(s, "Q is empty so nothing can be popped!!", StatusBadRequest)
    ELSE Result([s EXCEPT ![key].queue = Tail(s[key].queue)],
                Head(s[key].queue), StatusOK)

QPopOp_DeletesEmpty(s, key) ==
    IF key \notin DOMAIN s \/ ~s[key].isQueued \/ Len(s[key].queue) = 0
    THEN Result(s, "Q is empty so nothing can be popped!!", StatusBadRequest)
    ELSE Result(IF Len(s[key].queue) = 1
                THEN [k \in DOMAIN s \ {key} |-> s[k]]
                ELSE [s EXCEPT ![key].queue = Front(s[key].queue)],
                Last(s[key].queue), StatusOK)

QPopOp(s, key) ==
    IF key \notin DOMAIN s \/ ~s[key].isQueued \/ Len(s[key].queue) = 0
    THEN Result(s, "Q is empty so nothing can be popped!!", StatusBadRequest)
    ELSE Result([s EXCEPT ![key].queue = Front(s[key].queue)],
                Last(s[key].queue), StatusOK)

BQPopAttemptOp_Peek(s, key) ==
    IF key \notin DOMAIN s \/ ~s[key].isQueued \/ Len(s[key].queue) = 0
    THEN [store |-> s, out |-> "", found |-> FALSE]
    ELSE [store |-> s, out |-> Last(s[key].queue), found |-> TRUE]

(* One poll attempt of Datastore.BQPop, lines 107-125: the test and the pop  *)
(* under the lock.  found says which way the test at line 108 went.          *)

BQPopAttemptOp(s, key) ==
    IF key \notin DOMAIN s \/ ~s[key].isQueued \/ Len(s[key].queue) = 0
    THEN [store |-> s, out |-> "", found |-> FALSE]
    ELSE [store |-> [s EXCEPT ![key].queue = Front(s[key].queue)],
          out |-> Last(s[key].queue), found |-> TRUE]

(* Lines 102-103: timeoutSeconds is a float64, here in tenths of a second.   *)
(* time.Duration(timeoutSeconds) converts it to an integer, which drops the  *)
(* fraction (towards zero); the product with time.Second is the timeout.     *)

TruncFloat(tenths) == IF tenths >= 0 THEN tenths \div 10 ELSE -((-tenths) \div 10)

BQPopTimeout(tenths) == Second * TruncFloat(tenths)

(* The timeout the caller asked for, in ticks (one tick is a tenth of a second) *)
RequestedTicks(tenths) == (tenths * Second) \div 10

----------------------------------------------------------------------------
(* Records kept about calls *)

NoCall ==
    [caller |-> NoCaller, op |-> "none", key |-> "", value |-> "", ttl |-> 0,
     cond |-> "", values |-> <<>>, timeout |-> 0, tries |-> 0, out |-> "", status |-> 0]

NoBQ == [key |-> "", timeout |-> 0, expiry |-> 0, wake |-> 0, wrap |-> FALSE, raw |-> ""]

NoWatch == [start |-> 0, quiet |-> TRUE, pushAt |-> -1, pushVal |-> "", alone |-> TRUE,
            tries |-> 0]

NoResp == [raw |-> "", kind |-> "none", name |-> "", text |-> "", status |-> 0,
           panicked |-> FALSE]

Void == [pure |-> FALSE, pushed |-> <<>>, results |-> <<>>]

InBQPop(c) == pc[c] \in {"bq_wait", "bq_cs", "bq_check"}

(* line 108, negated: the key holds a queue with an element to pop *)
Poppable(s, key) == key \in DOMAIN s /\ s[key].isQueued /\ Len(s[key].queue) > 0

----------------------------------------------------------------------------
(* Observers.  They record what callers did and saw; no operation reads them. *)

(* What the other callers' running BQPops on the same key get to see of a    *)
(* call by c that has just completed with store s2.                          *)
WatchAfter(c, call, s2) ==
    [d \in AllCallers |->
        IF d = c
        THEN IF call.op = "BQPop" THEN NoWatch ELSE watch[d]
        ELSE IF InBQPop(d) /\ bq[d].key = call.key
        THEN LET w == watch[d]
                 ok == call.status = StatusOK
                 first == /\ call.op = "QPush" /\ ok /\ w.pushAt < 0
                          /\ now - w.start < RequestedTicks(bq[d].timeout)
                 pushed == call.op = "QPush" /\ ok /\ (first \/ w.pushAt >= 0)
             IN  [start |-> w.start,
                  quiet |-> w.quiet /\ ~Poppable(s2, call.key),
                  pushAt |-> IF first THEN now ELSE w.pushAt,
                  pushVal |-> IF pushed THEN Last(call.values) ELSE w.pushVal,
                  alone |-> w.alone /\ ~(ok /\ call.op \in {"Set", "QPop", "BQPop"}),
                  tries |-> w.tries]
        ELSE watch[d]]

WrittenAfter(call) ==
    IF call.op = "Set" /\ call.status = StatusOK
    THEN Put(written, call.key, [at |-> now, value |-> call.value, ttl |-> call.ttl])
    ELSE written

LifoAfter(call) ==
    LET key == call.key
        ok == call.status = StatusOK
    IN  IF call.op = "QPush" /\ ok
        THEN IF key \notin DOMAIN store
             THEN Put(lifo, key, [pure |-> TRUE, pushed |-> call.values, results |-> <<>>])
             ELSE IF key \in DOMAIN lifo /\ lifo[key].pure /\ lifo[key].results = <<>>
             THEN [lifo EXCEPT ![key].pushed = @ \o call.values]
             ELSE Put(lifo, key, Void)
        ELSE IF key \notin DOMAIN lifo
        THEN lifo
        ELSE IF ok /\ call.op \in {"Set", "BQPop"}
        THEN [lifo EXCEPT ![key] = Void]
        ELSE IF /\ call.op = "QPop" /\ lifo[key].pure
                /\ Len(lifo[key].results) <= Len(lifo[key].pushed)
        THEN [lifo EXCEPT ![key].results =
                 Append(@, [status |-> call.status,
                            value |-> IF ok THEN call.out ELSE ""])]
        ELSE lifo

(* The values of a sequence, each as often as it occurs *)
BagOf(q) ==
    [v \in {q[i] : i \in 1..Len(q)} |-> Cardinality({i \in 1..Len(q) : q[i] = v})]

NoLedger == [owed |-> EmptyBag, sound |-> TRUE, overwritten |-> FALSE]

(* The ledger of a key: a successful QPush adds its values to owed, a pop    *)
(* that returns a value with OK takes one occurrence of it out of owed, or   *)
(* marks the ledger unsound when owed has none; a successful Set closes it.  *)
LedgerAfter(call) ==
    LET key == call.key
        ok == call.status = StatusOK
        l == IF key \in DOMAIN ledger THEN ledger[key] ELSE NoLedger
    IN  IF l.overwritten \/ ~ok
        THEN ledger
        ELSE IF call.op = "QPush"
        THEN Put(ledger, key, [l EXCEPT !.owed = @ (+) BagOf(call.values)])
        ELSE IF call.op \in {"QPop", "BQPop"}
        THEN IF BagIn(call.out, l.owed)
             THEN Put(ledger, key, [l EXCEPT !.owed = @ (-) SetToBag({call.out})])
             ELSE Put(ledger, key, [l EXCEPT !.sound = FALSE])
        ELSE IF call.op = "Set" /\ key \in DOMAIN ledger
        THEN Put(ledger, key, [NoLedger EXCEPT !.overwritten = TRUE])
        ELSE ledger

(* A call by c completes: the store becomes s2 and the call is recorded *)
Finish(c, call, s2) ==
    /\ store' = s2
    /\ last' = call
    /\ watch' = WatchAfter(c, call, s2)
    /\ written' = WrittenAfter(call)
    /\ lifo' = LifoAfter(call)
    /\ ledger' = LedgerAfter(call)

CallOf(c, op, key, r) ==
    [NoCall EXCEPT !.caller = c, !.op = op, !.key = key, !.out = r.out,
                   !.status = r.status]

----------------------------------------------------------------------------
(* The operations of the Datastore, one caller c at a time under the mutex *)

Init ==
    /\ store = EmptyStore
    /\ mu = NoCaller
    /\ now = 0
    /\ pc = [c \in AllCallers |-> "idle"]
    /\ bq = [c \in AllCallers |-> NoBQ]
    /\ last = NoCall
    /\ resp = NoResp
    /\ watch = [c \in AllCallers |-> NoWatch]
    /\ written = EmptyStore
    /\ lifo = EmptyStore
    /\ ledger = EmptyStore

(* ds.mu.Lock() at lines 34, 56, 69 and 87: a caller of Set, Get, QPush or   *)
(* QPop gets the mutex when it is free.                                      *)
Lock_NoWait(c) ==
    /\ pc[c] = "idle"
    /\ mu' = c
    /\ pc' = [pc EXCEPT ![c] = "cs"]
    /\ last' = NoCall
    /\ resp' = NoResp
    /\ UNCHANGED <<store, now, bq, watch, written, lifo, ledger>>

Lock(c) ==
    /\ pc[c] = "idle"
    /\ mu = NoCaller
    /\ mu' = c
    /\ pc' = [pc EXCEPT ![c] = "cs"]
    /\ last' = NoCall
    /\ resp' = NoResp
    /\ UNCHANGED <<store, now, bq, watch, written, lifo, ledger>>

(* The deferred ds.mu.Unlock() and the return *)
Unlock(c) ==
    /\ pc[c] = "cs"
    /\ mu = c
    /\ mu' = NoCaller
    /\ pc' = [pc EXCEPT ![c] = "idle"]

Set(c, key, value, expirySeconds, conditional) ==
    /\ Unlock(c)
    /\ LET r == SetOp(store, now, key, value, expirySeconds, conditional)
       IN  Finish(c, [CallOf(c, "Set", key, r) EXCEPT !.value = value,
                         !.ttl = expirySeconds, !.cond = conditional], r.store)
    /\ resp' = NoResp
    /\ UNCHANGED <<now, bq>>

Get(c, key) ==
    /\ Unlock(c)
    /\ LET r == GetOp(store, now, key)
       IN  Finish(c, CallOf(c, "Get", key, r), r.store)
    /\ resp' = NoResp
    /\ UNCHANGED <<now, bq>>

QPush(c, key, values) ==
    /\ Unlock(c)
    /\ (IF key \in DOMAIN store THEN Len(store[key].queue) ELSE 0) + Len(values) <= MaxQueue
    /\ LET r == QPushOp(store, key, values)
       IN  Finish(c, [CallOf(c, "QPush", key, r) EXCEPT !.values = values], r.store)
    /\ resp' = NoResp
    /\ UNCHANGED <<now, bq>>

QPop(c, key) ==
    /\ Unlock(c)
    /\ LET r == QPopOp(store, key)
       IN  Finish(c, CallOf(c, "QPop", key, r), r.store)
    /\ resp' = NoResp
    /\ UNCHANGED <<now, bq>>

----------------------------------------------------------------------------
(* Datastore.BQPop, lines 101-127 *)

(* Whether the clock, which stops at horizon, leaves a BQPop called now room  *)
(* to run to its deadline and one poll interval beyond                       *)
RoomFor(timeoutSeconds, horizon) ==
    now + BQPopTimeout(timeoutSeconds) + PollInterval <= horizon

BQPopStart_ChecksFirst(c, key, timeoutSeconds, wrap, raw) ==
    /\ pc[c] = "idle"
    /\ pc' = [pc EXCEPT ![c] = "bq_check"]
    /\ bq' = [bq EXCEPT ![c] = [key |-> key, timeout |-> timeoutSeconds,
                                expiry |-> now + BQPopTimeout(timeoutSeconds),
                                wake |-> now, wrap |-> wrap, raw |-> raw]]
    /\ watch' = [watch EXCEPT ![c] = [NoWatch EXCEPT !.start = now,
                                         !.quiet = ~Poppable(store, key)]]
    /\ last' = NoCall
    /\ resp' = NoResp
    /\ UNCHANGED <<store, mu, now, written, lifo, ledger>>

(* Lines 102-103: the deadline.  wrap and raw say whether HandleCommand made *)
(* the call, and for which command.                                          *)
BQPopStart(c, key, timeoutSeconds, wrap, raw) ==
    /\ pc[c] = "idle"
    /\ pc' = [pc EXCEPT ![c] = "bq_wait"]
    /\ bq' = [bq EXCEPT ![c] = [key |-> key, timeout |-> timeoutSeconds,
                                expiry |-> now + BQPopTimeout(timeoutSeconds),
                                wake |-> now, wrap |-> wrap, raw |-> raw]]
    /\ watch' = [watch EXCEPT ![c] = [NoWatch EXCEPT !.start = now,
                                         !.quiet = ~Poppable(store, key)]]
    /\ last' = NoCall
    /\ resp' = NoResp
    /\ UNCHANGED <<store, mu, now, written, lifo, ledger>>

BQPop(c, key, timeoutSeconds) ==
    /\ RoomFor(timeoutSeconds, MaxPollTime)
    /\ BQPopStart(c, key, timeoutSeconds, FALSE, "")

(* Line 106: ds.mu.Lock(), at the call and after each sleep *)
BQPopLock(c) ==
    /\ pc[c] = "bq_wait"
    /\ now >= bq[c].wake
    /\ mu = NoCaller
    /\ mu' = c
    /\ pc' = [pc EXCEPT ![c] = "bq_cs"]
    /\ last' = NoCall
    /\ resp' = NoResp
    /\ UNCHANGED <<store, now, bq, watch, written, lifo, ledger>>

(* The payload HandleCommand makes of BQPop's result, lines 228-231 *)
BQPopResponse(raw, out, status) ==
    IF status = StatusOK
    THEN [NoResp EXCEPT !.raw = raw, !.kind = "fields", !.name = "value", !.text = out,
                        !.status = status]
    ELSE [NoResp EXCEPT !.raw = raw, !.kind = "nil", !.status = status]

BQPopReturn(c, out, status, s2) ==
    /\ Finish(c, [NoCall EXCEPT !.caller = c, !.op = "BQPop", !.key = bq[c].key,
                     !.timeout = bq[c].timeout, !.tries = watch[c].tries,
                     !.out = out, !.status = status], s2)
    /\ resp' = IF bq[c].wrap THEN BQPopResponse(bq[c].raw, out, status) ELSE NoResp
    /\ bq' = [bq EXCEPT ![c] = NoBQ]
    /\ pc' = [pc EXCEPT ![c] = "idle"]

BQPopPoll_KeepsLock(c) ==
    /\ pc[c] = "bq_cs"
    /\ mu = c
    /\ LET r == BQPopAttemptOp(store, bq[c].key)
       IN  IF r.found
           THEN /\ mu' = NoCaller
                /\ BQPopReturn(c, r.out, StatusOK, r.store)
                /\ UNCHANGED now
           ELSE /\ pc' = [pc EXCEPT ![c] = "bq_check"]
                /\ watch' = [watch EXCEPT ![c].tries = @ + 1]
                /\ last' = NoCall
                /\ resp' = NoResp
                /\ UNCHANGED <<store, mu, now, bq, written, lifo, ledger>>

(* Lines 107-110 and 121-125: one attempt under the lock.  The mutex is       *)
(* released on both paths.                                                    *)
BQPopPoll(c) ==
    /\ pc[c] = "bq_cs"
    /\ mu = c
    /\ LET r == BQPopAttemptOp(store, bq[c].key)
       IN  IF r.found
           THEN /\ mu' = NoCaller
                /\ BQPopReturn(c, r.out, StatusOK, r.store)
                /\ UNCHANGED now
           ELSE /\ mu' = NoCaller
                /\ pc' = [pc EXCEPT ![c] = "bq_check"]
                /\ watch' = [watch EXCEPT ![c].tries = @ + 1]
                /\ last' = NoCall
                /\ resp' = NoResp
                /\ UNCHANGED <<store, now, bq, written, lifo, ledger>>

BQPopDeadline_NeverExpires(c, late) ==
    /\ pc[c] = "bq_check"
    /\ pc' = [pc EXCEPT ![c] = "bq_wait"]
    /\ bq' = [bq EXCEPT ![c].wake = now + PollInterval]
    /\ last' = NoCall
    /\ resp' = NoResp
    /\ UNCHANGED <<store, mu, now, watch, written, lifo, ledger>>

(* Lines 112-118: the deadline test after a failed attempt.  time.Now() is    *)
(* read later than the clock value expiry was computed from; when both fall   *)
(* in the same tick the model cannot tell which way After goes, so late       *)
(* decides.                                                                   *)
BQPopDeadline(c, late) ==
    /\ pc[c] = "bq_check"
    /\ IF now > bq[c].expiry \/ (now = bq[c].expiry /\ late)
       THEN /\ BQPopReturn(c, "", StatusNotFound, store)
            /\ UNCHANGED <<mu, now>>
       ELSE /\ pc' = [pc EXCEPT ![c] = "bq_wait"]
            /\ bq' = [bq EXCEPT ![c].wake = now + PollInterval]
            /\ last' = NoCall
            /\ resp' = NoResp
            /\ UNCHANGED <<store, mu, now, watch, written, lifo, ledger>>

(* Time passes, by d ticks up to the horizon, while no caller has a statement *)
(* to run: each is between calls or asleep in BQPop (line 117) for at least   *)
(* d more ticks.                                                              *)
Tick(d, horizon) ==
    /\ now + d <= horizon
    /\ \A c \in AllCallers : pc[c] = "idle" \/ (pc[c] = "bq_wait" /\ now + d <= bq[c].wake)
    /\ now' = now + d
    /\ last' = NoCall
    /\ resp' = NoResp
    /\ UNCHANGED <<store, mu, pc, bq, watch, written, lifo, ledger>>

----------------------------------------------------------------------------
(* Spec: the store driven through its non-blocking operations by one caller *)

Callers == {"c1"}
Keys == {"k1", "k2"}
Values == {"a", "b"}
TTLs == {-1, 0, 1}
Conditionals == {"", "NX", "XX"}
PushArgs == {<<"a">>, <<"b">>, <<"a", "b">>}
Delays == {Second - PollInterval, Second}   \* the time that passes between two calls

Next ==
    \/ \E c \in Callers : Lock(c)
    \/ \E c \in Callers, key \in Keys, value \in Values, ttl \in TTLs, cond \in Conditionals :
          Set(c, key, value, ttl, cond)
    \/ \E c \in Callers, key \in Keys : Get(c, key)
    \/ \E c \in Callers, key \in Keys, values \in PushArgs : QPush(c, key, values)
    \/ \E c \in Callers, key \in Keys : QPop(c, key)
    \/ \E d \in Delays : Tick(d, MaxTime)

Spec == Init /\ [][Next]_vars

----------------------------------------------------------------------------
(* SpecBQ: two callers share one key; c1 also issues BQPop.  Timeouts are in  *)
(* tenths of a second: 0, 0.2 and 1 second.                                   *)

CallersBQ == {"c1", "c2"}
Waiters == {"c1"}
KeysBQ == {"k1"}
PushArgsBQ == {<<"a">>, <<"b">>}
Timeouts == {0, 2, 10}
ConditionalsBQ == {"", "NX"}

NextBQ ==
    \/ \E c \in CallersBQ : Lock(c)
    \/ \E c \in CallersBQ, key \in KeysBQ, cond \in ConditionalsBQ : Set(c, key, "a", 0, cond)
    \/ \E c \in CallersBQ, key \in KeysBQ : Get(c, key)
    \/ \E c \in CallersBQ, key \in KeysBQ, values \in PushArgsBQ : QPush(c, key, values)
    \/ \E c \in CallersBQ, key \in KeysBQ : QPop(c, key)
    \/ \E c \in Waiters, key \in KeysBQ, t \in Timeouts : BQPop(c, key, t)
    \/ \E c \in Waiters : BQPopLock(c)
    \/ \E c \in Waiters : BQPopPoll(c)
    \/ \E c \in Waiters, late \in BOOLEAN : BQPopDeadline(c, late)
    \/ Tick(PollInterval, MaxPollTime)

SpecBQ == Init /\ [][NextBQ]_vars

(* SpecBQFair: the two callers of SpecBQ writing, pushing and popping, c1    *)
(* also calling BQPop with timeouts of 0 and 1 second, under the scheduling  *)
(* the program runs with.  A caller inside a critical section runs it to its *)
(* unlock; a BQPop caller runs its own statements; sync.Mutex hands the lock *)
(* to a goroutine that keeps waiting for it (starvation mode), so a BQPop    *)
(* that is again and again able to take the mutex does take it; and time     *)
(* passes.                                                                   *)

TimeoutsFair == {0, 10}
PushArgsFair == {<<"a">>}

(* The body of a critical section, up to its unlock *)
Complete(c) ==
    \/ \E key \in KeysBQ : Set(c, key, "a", 0, "")
    \/ \E key \in KeysBQ, values \in PushArgsFair : QPush(c, key, values)
    \/ \E key \in KeysBQ : QPop(c, key)

NextBQFair ==
    \/ \E c \in CallersBQ : Lock(c)
    \/ \E c \in CallersBQ : Complete(c)
    \/ \E c \in Waiters, key \in KeysBQ, t \in TimeoutsFair : BQPop(c, key, t)
    \/ \E c \in Waiters : BQPopLock(c)
    \/ \E c \in Waiters : BQPopPoll(c)
    \/ \E c \in Waiters, late \in BOOLEAN : BQPopDeadline(c, late)
    \/ Tick(PollInterval, MaxPollTime)

FairBQ ==
    /\ \A c \in CallersBQ : WF_vars(Complete(c))
    /\ \A c \in Waiters :
          /\ SF_vars(BQPopLock(c))
          /\ WF_vars(BQPopPoll(c))
          /\ WF_vars(\E late \in BOOLEAN : BQPopDeadline(c, late))
    /\ SF_vars(Tick(PollInterval, MaxPollTime))

SpecBQFair == Init /\ [][NextBQFair]_vars /\ FairBQ

----------------------------------------------------------------------------
(* SpecBQShort: as SpecBQ, with BQPop called with timeouts of 0 and of -1    *)
(* second, whose deadline is not after the call.                             *)

TimeoutsShort == {-10, 0}

NextBQShort ==
    \/ \E c \in CallersBQ : Lock(c)
    \/ \E c \in CallersBQ, key \in KeysBQ : Set(c, key, "a", 0, "")
    \/ \E c \in CallersBQ, key \in KeysBQ : Get(c, key)
    \/ \E c \in CallersBQ, key \in KeysBQ, values \in PushArgsBQ : QPush(c, key, values)
    \/ \E c \in CallersBQ, key \in KeysBQ : QPop(c, key)
    \/ \E c \in Waiters, key \in KeysBQ, t \in TimeoutsShort :
          RoomFor(t, MaxShortTime) /\ BQPopStart(c, key, t, FALSE, "")
    \/ \E c \in Waiters : BQPopLock(c)
    \/ \E c \in Waiters : BQPopPoll(c)
    \/ \E c \in Waiters, late \in BOOLEAN : BQPopDeadline(c, late)
    \/ Tick(PollInterval, MaxShortTime)

SpecBQShort == Init /\ [][NextBQShort]_vars

----------------------------------------------------------------------------
(* The command front end, lines 132-236.  A raw command is a string; its     *)
(* characters are read with Len and SubSeq.                                  *)

CharAt(s, i) == SubSeq(s, i, i)

(* strings.Split(rawCommand, " "): the pieces between single spaces; always  *)
(* at least one piece, and an empty piece for each doubled or trailing space *)
RECURSIVE Split(_)
Split(s) ==
    LET spaces == {i \in 1..Len(s) : CharAt(s, i) = " "}
    IN  IF spaces = {}
        THEN <<s>>
        ELSE LET i == CHOOSE j \in spaces : \A m \in spaces : j <= m
             IN  <<SubSeq(s, 1, i - 1)>> \o Split(SubSeq(s, i + 1, Len(s)))

LowerCase == "abcdefghijklmnopqrstuvwxyz"
UpperCase == "ABCDEFGHIJKLMNOPQRSTUVWXYZ"

UpperChar(ch) ==
    LET at == {i \in 1..Len(LowerCase) : CharAt(LowerCase, i) = ch}
    IN  IF at = {} THEN ch ELSE CharAt(UpperCase, CHOOSE i \in at : TRUE)

(* strings.ToUpper *)
RECURSIVE ToUpper(_)
ToUpper(s) ==
    IF Len(s) = 0 THEN s ELSE UpperChar(CharAt(s, 1)) \o ToUpper(SubSeq(s, 2, Len(s)))

(* ParseCommand, lines 164-170 *)
ParseCommand(rawCommand) ==
    LET args == Split(rawCommand)
    IN  [command |-> ToUpper(args[1]), args |-> Tail(args)]

(* strings.HasPrefix *)
HasPrefix(s, prefix) == Len(s) >= Len(prefix) /\ SubSeq(s, 1, Len(prefix)) = prefix

Digits == "0123456789"

DigitValue(ch) == (CHOOSE i \in 1..Len(Digits) : CharAt(Digits, i) = ch) - 1

IsDigits(s) ==
    /\ Len(s) > 0
    /\ \A i \in 1..Len(s) : \E d \in 1..Len(Digits) : CharAt(Digits, d) = CharAt(s, i)

RECURSIVE DigitsValue(_)
DigitsValue(s) ==
    IF Len(s) = 0 THEN 0
    ELSE 10 * DigitsValue(SubSeq(s, 1, Len(s) - 1)) + DigitValue(CharAt(s, Len(s)))

Unsigned(s) == IF Len(s) > 0 /\ CharAt(s, 1) \in {"+", "-"} THEN SubSeq(s, 2, Len(s)) ELSE s

Negative(s) == Len(s) > 0 /\ CharAt(s, 1) = "-"

(* strconv.Atoi with its error dropped (line 184): an optional sign and      *)
(* decimal digits give the number, anything else gives 0                     *)
Atoi(s) ==
    IF IsDigits(Unsigned(s))
    THEN (IF Negative(s) THEN -1 ELSE 1) * DigitsValue(Unsigned(s))
    ELSE 0

(* strconv.ParseFloat (lines 157 and 226) on decimal numerals: an optional   *)
(* sign, digits, and optionally a point and more digits.  The value is kept  *)
(* in tenths; a numeral's second and later decimals are dropped.             *)
ParseFloat(s) ==
    LET u == Unsigned(s)
        points == {i \in 1..Len(u) : CharAt(u, i) = "."}
        point == IF points = {} THEN Len(u) + 1 ELSE CHOOSE i \in points : TRUE
        whole == SubSeq(u, 1, point - 1)
        frac == SubSeq(u, point + 1, Len(u))
        ok == /\ Cardinality(points) <= 1
              /\ Len(whole) + Len(frac) > 0
              /\ Len(whole) = 0 \/ IsDigits(whole)
              /\ Len(frac) = 0 \/ IsDigits(frac)
        tenths == 10 * DigitsValue(whole)
                    + (IF Len(frac) = 0 THEN 0 ELSE DigitValue(CharAt(frac, 1)))
    IN  [ok |-> ok, value |-> IF ~ok THEN 0 ELSE IF Negative(s) THEN -tenths ELSE tenths]

(* ValidateSetInput, lines 132-150.  args[3] here is args[2] there. *)
ValidateSetInput(args) ==
    /\ ~(Len(args) < 2)
    /\ ~(Len(args) > 5)
    /\ ~(Len(args) >= 4 /\ (~HasPrefix(args[3], "EX") \/ Len(args[3]) <= 2))
    /\ ~(Len(args) = 5 /\ (args[5] # "NX" /\ args[5] # "XX"))

(* ValidateBQPopInput, lines 152-162 *)
ValidateBQPopInput(args) ==
    /\ ~(Len(args) # 2)
    /\ ParseFloat(args[2]).ok

(* The raw commands sent in SpecCmd *)
RawCommands ==
    {"", "PING", "GET", "GET k", "get k", "GET n", "GET  k", "GET k n",
     "SET k", "SET k v", "SET k v EX1", "SET k v EX", "SET k v EXx",
     "SET k v 10", "SET k v NX", "SET k v E", "SET k v ",
     "SET k w EX1 NX", "SET n v EX1 XX", "SET k w EX1 - NX", "SET n v EX1 - XX",
     "SET k w EX1 - XX", "SET k v x y", "SET k v EX y", "SET k v EX1 - ZZ",
     "SET k v EX1 a b c",
     "QPUSH q a b", "QPUSH q", "qpush k a", "QPOP q", "QPOP", "QPOP n",
     "BQPOP q 0", "BQPOP q 0.2", "BQPOP q x", "BQPOP q", "bqpop n 0"}

(* ParseCommand on each of them, computed once *)
Parsed == [raw \in RawCommands |-> ParseCommand(raw)]

(* Response payloads: a string, a one-field map, or nil *)
Text(raw, text, status) ==
    [NoResp EXCEPT !.raw = raw, !.kind = "text", !.text = text, !.status = status]

Fields(raw, name, text, status) ==
    [NoResp EXCEPT !.raw = raw, !.kind = "fields", !.name = name, !.text = text,
                   !.status = status]

Nil(raw, status) == [NoResp EXCEPT !.raw = raw, !.kind = "nil", !.status = status]

(* A run-time panic: HandleCommand returns nothing *)
Panic(raw) == [NoResp EXCEPT !.raw = raw, !.kind = "panic", !.panicked = TRUE]

(* What HandleCommand does with a command: the response, the Datastore call  *)
(* it made, if any (NoCall otherwise), and the store after it.  For BQPOP    *)
(* the call is only named here (blocking = TRUE); BQPop's steps run it.      *)
Outcome(s, call, response) ==
    [store |-> s, call |-> call, resp |-> response, blocking |-> FALSE]

(* HandleCommand, lines 172-236 *)
HandleCommandOp(s, t, c, rawCommand) ==
    LET command == Parsed[rawCommand].command
        args == Parsed[rawCommand].args
        raw == rawCommand
    IN  IF command = "SET"
        THEN IF ~ValidateSetInput(args)
             THEN Outcome(s, NoCall, Text(raw, "Invalid Command", StatusBadRequest))
             ELSE IF Len(args) >= 3 /\ Len(args[3]) < 2
             THEN \* args[2][2:] at line 184: slice bounds out of range
                  Outcome(s, NoCall, Panic(raw))
             ELSE LET key == args[1]
                      value == args[2]
                      expirySeconds == IF Len(args) >= 3
                                       THEN Atoi(SubSeq(args[3], 3, Len(args[3])))
                                       ELSE 0
                      conditional == IF Len(args) = 5 THEN args[5] ELSE ""
                      r == SetOp(s, t, key, value, expirySeconds, conditional)
                  IN  Outcome(r.store,
                              [CallOf(c, "Set", key, r) EXCEPT !.value = value,
                                  !.ttl = expirySeconds, !.cond = conditional],
                              Text(raw, r.out, r.status))
        ELSE IF command = "GET"
        THEN IF Len(args) # 1
             THEN Outcome(s, NoCall, Text(raw, "Invalid Command", StatusBadRequest))
             ELSE LET r == GetOp(s, t, args[1])
                  IN  Outcome(r.store, CallOf(c, "Get", args[1], r),
                              IF r.status = StatusOK
                              THEN Fields(raw, "value", r.out, r.status)
                              ELSE Text(raw, r.out, r.status))
        ELSE IF command = "QPUSH"
        THEN IF Len(args) < 2
             THEN Outcome(s, NoCall, Nil(raw, StatusBadRequest))
             ELSE LET r == QPushOp(s, args[1], Tail(args))
                  IN  Outcome(r.store,
                              [CallOf(c, "QPush", args[1], r) EXCEPT !.values = Tail(args)],
                              Text(raw, r.out, r.status))
        ELSE IF command = "QPOP"
        THEN IF Len(args) # 1
             THEN Outcome(s, NoCall, Nil(raw, StatusBadRequest))
             ELSE LET r == QPopOp(s, args[1])
                  IN  Outcome(r.store, CallOf(c, "QPop", args[1], r),
                              IF r.status = StatusOK
                              THEN Fields(raw, "value", r.out, r.status)
                              ELSE Fields(raw, "error", r.out, r.status))
        ELSE IF command = "BQPOP"
        THEN IF ~ValidateBQPopInput(args)
             THEN Outcome(s, NoCall, Nil(raw, StatusBadRequest))
             ELSE [store |-> s,
                   call |-> [NoCall EXCEPT !.caller = c, !.op = "BQPop", !.key = args[1],
                                !.timeout = ParseFloat(args[2]).value],
                   resp |-> NoResp,
                   blocking |-> TRUE]
        ELSE Outcome(s, NoCall, Text(raw, "Invalid Command", StatusBadRequest))

(* One command served.  SET, GET, QPUSH and QPOP run their Datastore call    *)
(* under the mutex, which must be free; BQPOP starts a BQPop whose result    *)
(* BQPopReturn turns into the response.                                      *)
HandleCommand(c, rawCommand) ==
    /\ pc[c] = "idle"
    /\ LET h == HandleCommandOp(store, now, c, rawCommand)
       IN  IF h.blocking
           THEN /\ RoomFor(h.call.timeout, MaxCmdTime)
                /\ BQPopStart(c, h.call.key, h.call.timeout, TRUE, rawCommand)
           ELSE /\ h.call # NoCall => mu = NoCaller
                /\ h.call.op = "QPush" /\ h.call.status = StatusOK =>
                       Len(h.store[h.call.key].queue) <= MaxQueue
                /\ resp' = h.resp
                /\ IF h.call = NoCall
                   THEN last' = NoCall /\ UNCHANGED <<store, watch, written, lifo, ledger>>
                   ELSE Finish(c, h.call, h.store)
                /\ UNCHANGED <<mu, now, pc, bq>>

----------------------------------------------------------------------------
(* SpecCmd: one caller sends raw commands to HandleCommand *)

NextCmd ==
    \/ \E raw \in RawCommands : HandleCommand("c1", raw)
    \/ BQPopLock("c1")
    \/ BQPopPoll("c1")
    \/ \E late \in BOOLEAN : BQPopDeadline("c1", late)
    \/ Tick(PollInterval, MaxCmdTime)

SpecCmd == Init /\ [][NextCmd]_vars

----------------------------------------------------------------------------
(* Properties.  last' is a call's record exactly in the step it returns in.  *)

(* C2: queues are LIFO.  For a key created by QPush and only appended to     *)
(* since (no Set, no push after a pop), the QPop calls return the appended   *)
(* values last-first, each with OK, and after as many pops as values QPop    *)
(* returns BadRequest.                                                       *)
C2_QueueIsLifo ==
    \A k \in DOMAIN lifo :
        lifo[k].pure =>
            LET pushed == lifo[k].pushed
                results == lifo[k].results
                n == Len(pushed)
            IN  /\ \A i \in 1..Len(results) :
                       IF i <= n
                       THEN results[i] = [status |-> StatusOK, value |-> pushed[n + 1 - i]]
                       ELSE results[i].status = StatusBadRequest
                /\ k \in DOMAIN store
                /\ Len(results) <= n => store[k].queue = SubSeq(pushed, 1, n - Len(results))

(* C2 witness: two values appended, both popped in reverse, and a third QPop *)
(* refused.                                                                  *)
C2_Witness ==
    \E k \in DOMAIN lifo :
        /\ lifo[k].pure
        /\ lifo[k].pushed = <<"a", "b">>
        /\ Len(lifo[k].results) = 3
        /\ last.op = "QPop" /\ last.key = k /\ last.status = StatusBadRequest

(* C3: Set with NX on a key in the store returns Conflict and changes        *)
(* nothing; Set with XX on a key not in the store returns NotFound and       *)
(* changes nothing; every other Set returns OK and leaves the key a Scalar   *)
(* holding the given value, the other keys as they were.                     *)
C3_ConditionalSet ==
    [][last'.op = "Set" =>
         LET k == last'.key
         IN  IF last'.cond = "NX" /\ k \in DOMAIN store
             THEN last'.status = StatusConflict /\ store' = store
             ELSE IF last'.cond = "XX" /\ k \notin DOMAIN store
             THEN last'.status = StatusNotFound /\ store' = store
             ELSE /\ last'.status = StatusOK
                  /\ DOMAIN store' = DOMAIN store \cup {k}
                  /\ store'[k].value = last'.value
                  /\ ~store'[k].isQueued
                  /\ \A j \in DOMAIN store \ {k} : store'[j] = store[j]]_vars

(* C3 witness: a Set with NX has just been refused on an existing key *)
C3_Witness ==
    /\ last.op = "Set" /\ last.cond = "NX" /\ last.status = StatusConflict
    /\ last.key \in DOMAIN store /\ store[last.key].value # last.value

C7_QPushOnScalar ==
    [][(last'.op = "QPush" /\ last'.key \in DOMAIN store /\ ~store[last'.key].isQueued) =>
         (last'.status = StatusConflict /\ store' = store)]_vars

(* C7 witness: a QPush has just been refused on a key that holds a Scalar *)
C7_Witness ==
    /\ last.op = "QPush" /\ last.status = StatusConflict
    /\ last.key \in DOMAIN written /\ ~store[last.key].isQueued
    /\ store[last.key].queue = <<>>

(* C8, as claimed: no step changes the kind of a key that has an entry *)
C8_KindImmutable ==
    [][\A k \in DOMAIN store :
         k \in DOMAIN store' /\ store'[k].isQueued = store[k].isQueued]_vars

(* C8, amended: an entry is never removed, a Scalar key never becomes a      *)
(* Queue key, and a Queue key becomes a Scalar key only by a successful Set  *)
(* on that key; Get, QPush, QPop and BQPop never change a key's kind.        *)
C8_KindChangesOnlyBySet ==
    [][\A k \in DOMAIN store :
         /\ k \in DOMAIN store'
         /\ store'[k].isQueued # store[k].isQueued =>
                /\ store[k].isQueued
                /\ last'.op = "Set" /\ last'.key = k /\ last'.status = StatusOK]_vars

(* C8 witness: a key created as a Queue by QPush now holds a Scalar *)
C8_Witness ==
    \E k \in DOMAIN lifo : k \in DOMAIN store /\ ~store[k].isQueued

(* C10: when the last successful Set on a key had no ttl (ttl <= 0), every   *)
(* Get of that key returns its value with OK, at any time.                   *)
C10_ScalarRoundTrip ==
    [][(last'.op = "Get" /\ last'.key \in DOMAIN written /\ written[last'.key].ttl <= 0) =>
         (last'.status = StatusOK /\ last'.out = written[last'.key].value)]_vars

(* C10 witness: a Get returns the value of a Set without ttl made two         *)
(* seconds earlier, the other key having been written in between             *)
C10_Witness ==
    /\ last.op = "Get" /\ last.status = StatusOK
    /\ last.key \in DOMAIN written /\ written[last.key].ttl <= 0
    /\ now >= written[last.key].at + 2 * Second
    /\ \E j \in DOMAIN written : j # last.key /\ written[j].at > written[last.key].at

(* C12: Get is a pure read.  A Get step, whatever it returns, leaves the     *)
(* whole store as it was: no entry is removed, expired or not, and no        *)
(* entry's value, expiry, kind or queue changes.                             *)
C12_GetIsPureRead ==
    [][last'.op = "Get" => store' = store]_vars

(* C12 witness: a Get has just returned NotFound for a key whose entry has   *)
(* expired, and the entry is still in the store                              *)
C12_Witness ==
    /\ last.op = "Get" /\ last.status = StatusNotFound
    /\ last.key \in DOMAIN store
    /\ store[last.key].expiry # ZeroTime /\ now >= store[last.key].expiry
    /\ store[last.key].value = written[last.key].value

(* C17: Set overwrites a queue.  A Set with conditional "" or XX on a key    *)
(* holding a Queue returns OK and leaves the key a Scalar with the given     *)
(* value and no queued elements; on a key that was created as a Queue and    *)
(* now holds a Scalar, QPop returns BadRequest and QPush returns Conflict,   *)
(* both leaving the store as it was.                                         *)
C17_SetOverwritesQueue ==
    [][LET k == last'.key
           overwritten == k \in DOMAIN lifo /\ k \in DOMAIN store /\ ~store[k].isQueued
       IN  /\ (/\ last'.op = "Set" /\ last'.cond \in {"", "XX"}
                /\ k \in DOMAIN store /\ store[k].isQueued) =>
                  /\ last'.status = StatusOK
                  /\ ~store'[k].isQueued
                  /\ store'[k].value = last'.value
                  /\ store'[k].queue = <<>>
           /\ (last'.op = "QPop" /\ overwritten) =>
                  (last'.status = StatusBadRequest /\ store' = store)
           /\ (last'.op = "QPush" /\ overwritten) =>
                  (last'.status = StatusConflict /\ store' = store)]_vars

(* C17 witness: a QPop has just been refused on a key that was created as a  *)
(* Queue and that a Set with XX has turned into a Scalar                     *)
C17_Witness ==
    /\ last.op = "QPop" /\ last.status = StatusBadRequest
    /\ last.key \in DOMAIN lifo /\ last.key \in DOMAIN store
    /\ ~store[last.key].isQueued
    /\ store[last.key].value = "b" /\ store[last.key].expiry # ZeroTime

(* C20: an expired scalar still exists for writes.  On a key whose Scalar    *)
(* entry has expired (Get returns NotFound) a Set with NX returns Conflict   *)
(* and changes nothing, a Set with XX returns OK, a QPush returns Conflict   *)
(* and changes nothing, and the entry stays expired through every step that  *)
(* is not a successful Set on that key.                                      *)
C20_ExpiredStillExists ==
    [][\A k \in DOMAIN store :
         (~store[k].isQueued /\ store[k].expiry # ZeroTime /\ now >= store[k].expiry) =>
            /\ (last'.op = "Get" /\ last'.key = k) => last'.status = StatusNotFound
            /\ (last'.op = "Set" /\ last'.key = k /\ last'.cond = "NX") =>
                   (last'.status = StatusConflict /\ store' = store)
            /\ (last'.op = "Set" /\ last'.key = k /\ last'.cond = "XX") =>
                   (last'.status = StatusOK /\ store'[k].value = last'.value)
            /\ (last'.op = "QPush" /\ last'.key = k) =>
                   (last'.status = StatusConflict /\ store' = store)
            /\ ~(last'.op = "Set" /\ last'.key = k /\ last'.status = StatusOK) =>
                   /\ k \in DOMAIN store'
                   /\ store'[k] = store[k]
                   /\ now' >= store'[k].expiry]_vars

(* C20 witness: a Set with NX has just been refused on a key whose entry had *)
(* expired a second or more before                                           *)
C20_Witness ==
    /\ last.op = "Set" /\ last.cond = "NX" /\ last.status = StatusConflict
    /\ last.key \in DOMAIN store
    /\ store[last.key].expiry # ZeroTime /\ now >= store[last.key].expiry + Second

----------------------------------------------------------------------------
(* Properties of BQPop, under SpecBQ *)

(* C5: a BQPop(key, T) during which the key never had an element to pop      *)
(* returns NotFound no earlier than T after it started and no later than T   *)
(* plus one poll interval.                                                   *)
C5_BQPopTiming ==
    [][(last'.op = "BQPop" /\ last'.status = StatusNotFound /\ watch[last'.caller].quiet) =>
         LET elapsed == now - watch[last'.caller].start
             T == RequestedTicks(last'.timeout)
         IN  T <= elapsed /\ elapsed <= T + PollInterval]_vars

(* C6: when another caller's QPush to the key succeeded while the BQPop was  *)
(* waiting, before T had elapsed, and no other caller popped or overwrote    *)
(* the key, the BQPop returns OK with the pushed value, within one poll      *)
(* interval of the push.                                                     *)
C6_BQPopWakesOnPush ==
    [][(/\ last'.op = "BQPop"
        /\ watch[last'.caller].pushAt >= 0
        /\ watch[last'.caller].alone) =>
         /\ last'.status = StatusOK
         /\ last'.out = watch[last'.caller].pushVal
         /\ now <= watch[last'.caller].pushAt + PollInterval]_vars

(* C9: a caller that is between calls, asleep between two poll attempts of   *)
(* BQPop or at its deadline test does not hold the mutex: whoever holds it   *)
(* is inside a critical section.                                             *)
C9_NoLockWhileSuspended ==
    /\ \A c \in AllCallers : pc[c] \in {"idle", "bq_wait", "bq_check"} => mu # c
    /\ mu # NoCaller => pc[mu] \in {"cs", "bq_cs"}

(* C9 witness: while c1 sleeps in BQPop after a failed attempt, c2 holds the *)
(* mutex                                                                     *)
C9_Witness ==
    /\ pc["c1"] = "bq_wait" /\ now < bq["c1"].wake
    /\ mu = "c2" /\ pc["c2"] = "cs"

(* C13: an emptied queue is not deleted.  A QPop or BQPop that returns OK    *)
(* leaves the key in the store as a Queue entry holding the elements before  *)
(* the popped one, zero elements included; on a Queue entry with zero        *)
(* elements a Set with NX returns Conflict and changes nothing, and a QPush  *)
(* returns OK and makes its values the queue.                                *)
C13_EmptiedQueueStays ==
    [][LET k == last'.key
           empty == k \in DOMAIN store /\ store[k].isQueued /\ store[k].queue = <<>>
       IN  /\ (last'.op \in {"QPop", "BQPop"} /\ last'.status = StatusOK) =>
                  /\ k \in DOMAIN store'
                  /\ store'[k].isQueued
                  /\ store'[k].queue = Front(store[k].queue)
           /\ (last'.op = "Set" /\ last'.cond = "NX" /\ empty) =>
                  (last'.status = StatusConflict /\ store' = store)
           /\ (last'.op = "QPush" /\ empty) =>
                  /\ last'.status = StatusOK
                  /\ store'[k].isQueued
                  /\ store'[k].queue = last'.values]_vars

(* C13 witness: a BQPop has just taken the last element of a queue, and the  *)
(* key is still in the store as a Queue with zero elements                   *)
C13_Witness ==
    /\ last.op = "BQPop" /\ last.status = StatusOK
    /\ last.key \in DOMAIN store
    /\ store[last.key].isQueued /\ store[last.key].queue = <<>>

(* C14: mutual exclusion.  At most one caller is inside a critical section  *)
(* (the body of Set, Get, QPush or QPop, or one poll attempt of BQPop), that *)
(* caller holds the mutex, and the store changes only in a step in which the *)
(* holder of the mutex completes its critical section and releases it.       *)
C14_MutualExclusion ==
    /\ [](\A c, d \in AllCallers :
             /\ pc[c] \in {"cs", "bq_cs"} => mu = c
             /\ (pc[c] \in {"cs", "bq_cs"} /\ pc[d] \in {"cs", "bq_cs"}) => c = d)
    /\ [][store' # store =>
             /\ mu # NoCaller /\ pc[mu] \in {"cs", "bq_cs"}
             /\ mu' = NoCaller /\ last'.caller = mu]_vars

(* C14 witness: c2 is inside the body of an operation while c1, awake in     *)
(* BQPop and due for its next attempt, waits for the mutex                   *)
C14_Witness ==
    /\ pc["c2"] = "cs" /\ mu = "c2"
    /\ pc["c1"] = "bq_wait" /\ now >= bq["c1"].wake /\ now > watch["c1"].start

(* C15: BQPop terminates.  Under fair lock acquisition and advancing time a  *)
(* caller inside BQPop eventually is out of it again (the call has returned, *)
(* with OK or NotFound), whatever the other caller does meanwhile.           *)
C15_BQPopTerminates ==
    \A c \in Waiters : InBQPop(c) ~> (pc[c] = "idle")

(* C15 witness: a BQPop with a timeout of one second has just returned       *)
(* NotFound, past its deadline, on a key that the other caller pushed to and *)
(* popped from                                                               *)
C15_Witness ==
    /\ last.op = "BQPop" /\ last.timeout = 10 /\ last.status = StatusNotFound
    /\ now > Second
    /\ last.key \in DOMAIN lifo /\ lifo[last.key].pure
    /\ Len(lifo[last.key].results) > 0

(* C18: BQPop attempts the pop before it tests the deadline.  A BQPop that   *)
(* returns NotFound has made at least one attempt, and all its attempts      *)
(* found the key absent, not a queue or empty; an attempt that finds a       *)
(* non-empty queue returns its last element with OK and removes it, wherever *)
(* the clock stands relative to the deadline, for timeouts of zero and below *)
(* as well.                                                                  *)
C18_AttemptBeforeDeadline ==
    [][\A c \in Waiters :
         /\ (last'.op = "BQPop" /\ last'.caller = c /\ last'.status = StatusNotFound) =>
                (last'.tries >= 1 /\ pc[c] = "bq_check" /\ store' = store)
         /\ (pc[c] = "bq_cs" /\ pc'[c] # "bq_cs" /\ Poppable(store, bq[c].key)) =>
                /\ last'.op = "BQPop" /\ last'.caller = c
                /\ last'.status = StatusOK
                /\ last'.out = Last(store[bq[c].key].queue)
                /\ store'[bq[c].key].queue = Front(store[bq[c].key].queue)
         /\ (pc[c] = "bq_cs" /\ pc'[c] # "bq_cs" /\ ~Poppable(store, bq[c].key)) =>
                (pc'[c] = "bq_check" /\ last'.op = "none" /\ store' = store)]_vars

(* C18 witness: a BQPop with timeout zero has just returned OK from its      *)
(* second attempt, one poll interval after its deadline                      *)
C18_Witness ==
    /\ last.op = "BQPop" /\ last.status = StatusOK
    /\ last.timeout = 0 /\ last.tries = 1
    /\ now > 0

(* C19: no duplicate and no phantom delivery.  For a key pushed to and not    *)
(* overwritten by Set, every value a QPop or BQPop returned with OK was an   *)
(* occurrence pushed before and not returned before, and the occurrences     *)
(* pushed and not yet returned are exactly the elements of the key's queue.  *)
C19_NoDuplicateNoPhantom ==
    /\ \A k \in DOMAIN ledger :
          ~ledger[k].overwritten =>
              /\ ledger[k].sound
              /\ k \in DOMAIN store /\ store[k].isQueued
              /\ BagOf(store[k].queue) = ledger[k].owed
    /\ \A k \in DOMAIN store : store[k].isQueued => k \in DOMAIN ledger

(* C19 witness: c1's BQPop, after a failed attempt, has just returned a      *)
(* value that c2 pushed meanwhile, and another pushed value is still queued  *)
C19_Witness ==
    /\ last.op = "BQPop" /\ last.status = StatusOK /\ last.tries >= 1
    /\ last.out = "b"
    /\ last.key \in DOMAIN ledger /\ ~ledger[last.key].overwritten
    /\ ledger[last.key].owed = SetToBag({"a"})

----------------------------------------------------------------------------
(* Properties of HandleCommand, under SpecCmd *)

(* C1: HandleCommand answers every raw command with a status among 200, 400, *)
(* 404 and 409 and never panics.                                             *)
C1_NeverCrashes ==
    resp.kind # "none" =>
        ~resp.panicked /\ resp.status \in {StatusOK, StatusBadRequest, StatusNotFound,
                                           StatusConflict}

(* C11: a command that HandleCommand answers without calling the Datastore   *)
(* and without panicking (an unrecognized verb, or a verb whose validation   *)
(* failed) gets the payload "Invalid Command" with status BadRequest.        *)
C11_InvalidCommandMessage ==
    (resp.kind # "none" /\ last.op = "none" /\ ~resp.panicked) =>
        resp = Text(resp.raw, "Invalid Command", StatusBadRequest)

(* C16: trailing conditional flag.  When a SET command that passes           *)
(* validation has NX or XX as its last argument, after the EX argument (as   *)
(* 4th or as 5th argument), the write is conditional: NX on a key in the     *)
(* store is answered Conflict and XX on a key not in the store NotFound,     *)
(* both with the store unchanged.                                            *)
C16_TrailingFlag ==
    [][LET args == Parsed[resp'.raw].args
       IN  (/\ resp'.kind # "none"
            /\ Parsed[resp'.raw].command = "SET"
            /\ ValidateSetInput(args)
            /\ Len(args) >= 4
            /\ Last(args) \in {"NX", "XX"}) =>
               /\ (Last(args) = "NX" /\ args[1] \in DOMAIN store) =>
                      (resp'.status = StatusConflict /\ store' = store)
               /\ (Last(args) = "XX" /\ args[1] \notin DOMAIN store) =>
                      (resp'.status = StatusNotFound /\ store' = store)]_vars

====
